---- MODULE Spec2Model ----
(***************************************************************************)
(* Vectorscope: an audio thread (callback) appends stereo frames to a      *)
(* fixed-size ring, the display thread (main / DrawVertexBuffer) walks the *)
(* ring once per tick.  Both programs of the repository are modelled:      *)
(*   variant "main"    src/main.c                                          *)
(*   variant "simple"  src/unnamed/part_000                                *)
(***************************************************************************)
EXTENDS Integers, Sequences, FiniteSets, TLC

\* ------------------------------------------------------------------ bounds
\* The ring capacity (2048 in the source) scaled down for checking.
VERTEX_BUFFER_SIZE == 3
\* Largest frame count of one callback batch.
MaxFrames == 4
\* Total number of points appended over a run.
MaxAppended == 5
\* Number of failing sem_wait calls explored by SpecFail.
MaxFail == 1

\* Longest stream, in seconds, whose seeks are explored.
MaxDuration == 12

\* ------------------------------------------------------ program constants
WINDOW_WIDTH == 1024
WINDOW_HEIGHT == 1024
WINDOW_SIZE == 1024

N == VERTEX_BUFFER_SIZE

\* Amplitudes a decoded frame can carry (left, right), in whole units.
Samples == { <<1, -1>>, <<-1, 1>> }

\* Sizes the current monitor can report.
MonitorSizes == { <<1920, 1080>> }

\* Monitors taller than they are wide, and a square one.
UprightMonitorSizes == { <<1080, 1920>>, <<768, 1024>>, <<1200, 1200>> }

Variants == { "main", "simple" }

VARIABLES
    variant,        \* which program runs
    argc,           \* main's argc
    mpc,            \* position of the main (display) thread
    exitStatus,     \* main's return value, -1 while running
    audioDeviceOpen,\* InitAudioDevice done, CloseAudioDevice not
    streamLoaded,   \* music.stream.buffer # NULL and not yet unloaded
    attached,       \* callback attached to the stream
    playing,        \* IsMusicStreamPlaying(music)
    windowOpen,     \* InitWindow done, CloseWindow not
    windowWidth, windowHeight, fullscreen, monitorSize,
    semState,       \* "uninit", "init", "destroyed"
    mutex,          \* value of the semaphore
    waitRet,        \* return value of each thread's last sem_wait
    vertexBuffer, cursor,
    apc, frames, ci,        \* audio thread: position, callback's frames and i
    batch,          \* the frames callback has read from buffer in this call
    cbCursor, cbBuf,        \* cursor and vertexBuffer when callback got the lock
    seek,           \* the seek step of one tick: what it read, what it asked for
    begin, di, segs,        \* DrawVertexBuffer's begin and i, vertices emitted
    drawOffset, drawScale,  \* DrawVertexBuffer's arguments
    hist,           \* every point written to the ring so far, in order
    snapLen, snapCursor,    \* Len(hist) and cursor when the walk got the lock
    nfail,          \* failed sem_wait calls so far
    shouldClose,    \* what WindowShouldClose() returned at the last loop test
    loadResult,     \* "none", then what LoadMusicStream gave: "ok" or "failed"
    snapBuf         \* vertexBuffer when the walk got the lock

vars == << variant, argc, mpc, exitStatus, audioDeviceOpen, streamLoaded,
           attached, playing, windowOpen, windowWidth, windowHeight,
           fullscreen, monitorSize, semState, mutex, waitRet, vertexBuffer,
           cursor, apc, frames, ci, begin, di, segs, drawOffset, drawScale,
           hist, snapLen, snapCursor, nfail, shouldClose, loadResult, snapBuf,
           batch, cbCursor, cbBuf, seek >>

libVars   == << audioDeviceOpen, streamLoaded, attached, playing >>
winVars   == << windowOpen, windowWidth, windowHeight, fullscreen, monitorSize >>
semVars   == << semState, mutex, waitRet, nfail >>
ringVars  == << vertexBuffer, cursor, hist >>
cbVars    == << apc, frames, ci, batch, cbCursor, cbBuf >>
drawVars  == << begin, di, segs, drawOffset, drawScale, snapLen, snapCursor,
               snapBuf >>
procVars  == << variant, argc, exitStatus, shouldClose, loadResult, seek >>

Zero == << 0, 0 >>

Min(a, b) == IF a < b THEN a ELSE b

Max(a, b) == IF a > b THEN a ELSE b

\* ------------------------------------------------------------ raymath
Vector2Scale(v, s) == << v[1] * s, v[2] * s >>
Vector2Add(v, w) == << v[1] + w[1], v[2] + w[2] >>

\* --------------------------------------------------- main's statement order
\* Faulty variant: the semaphore is initialised after playback has started.
StartupOrderInitLate(v) ==
    << "argcheck", "InitAudioDevice", "LoadMusicStream",
       "AttachAudioStreamProcessor", "InitWindow", "PlayMusicStream",
       "sem_init", "looptest" >>

StartupOrder(v) ==
    IF v = "main"
    THEN << "argcheck", "InitAudioDevice", "LoadMusicStream",
            "AttachAudioStreamProcessor", "sem_init", "InitWindow",
            "PlayMusicStream", "looptest" >>
    ELSE << "argcheck", "sem_init", "InitWindow", "InitAudioDevice",
            "LoadMusicStream", "AttachAudioStreamProcessor",
            "PlayMusicStream", "looptest" >>

\* Faulty variant: the semaphore is destroyed first.
TeardownOrderDestroyFirst(v) ==
    << "sem_destroy", "UnloadMusicStream", "CloseWindow", "return" >>

TeardownOrder(v) ==
    IF v = "main"
    THEN << "UnloadMusicStream", "CloseWindow", "sem_destroy", "return" >>
    ELSE << "UnloadMusicStream", "CloseAudioDevice", "CloseWindow",
            "sem_destroy", "return" >>

Index(seq, x) == CHOOSE i \in 1..Len(seq) : seq[i] = x

After(seq, x) == seq[Index(seq, x) + 1]

\* ------------------------------------------------------------------ Init
\* No seek key has been read.
NoSeek ==
    [ duration |-> 0, elapsed |-> 0, right |-> FALSE, left |-> FALSE,
      done |-> FALSE, targets |-> << >> ]

\* The program's state when main is entered.
ProgramInit ==
    /\ variant \in Variants
    /\ argc \in { 1, 2 }
    /\ mpc = "argcheck"
    /\ exitStatus = -1
    /\ audioDeviceOpen = FALSE
    /\ streamLoaded = FALSE
    /\ attached = FALSE
    /\ playing = FALSE
    /\ windowOpen = FALSE
    /\ windowWidth = 0
    /\ windowHeight = 0
    /\ fullscreen = FALSE
    /\ monitorSize = << 0, 0 >>
    /\ semState = "uninit"
    /\ mutex = 0
    /\ waitRet = [ audio |-> 0, display |-> 0 ]
    /\ vertexBuffer = [ s \in 0..(N - 1) |-> Zero ]
    /\ cursor = 0
    /\ apc = "idle"
    /\ frames = 0
    /\ ci = 0
    /\ begin = Zero
    /\ di = 0
    /\ segs = << >>
    /\ drawOffset = Zero
    /\ drawScale = 0
    /\ hist = << >>
    /\ snapLen = 0
    /\ snapCursor = 0
    /\ nfail = 0
    /\ shouldClose = FALSE
    /\ loadResult = "none"
    /\ snapBuf = [ s \in 0..(N - 1) |-> Zero ]
    /\ batch = << >>
    /\ cbCursor = 0
    /\ cbBuf = [ s \in 0..(N - 1) |-> Zero ]

Init ==
    /\ ProgramInit
    /\ seek = NoSeek

\* ------------------------------------------------------------- semaphore
\* sem_init(&mutex, 0, 1)
SemInitValue == 1

\* Faulty variant: the wait never blocks.
SemWaitNeverBlocks(m) == TRUE

\* sem_wait returns only once the value is positive ...
SemWaitCanPass(m) == m > 0

\* Faulty variant: the wait returns without taking the semaphore.
SemTakeNothing(m) == m

\* ... and decrements it.
SemTake(m) == m - 1

\* Faulty variant: the post is lost.
SemGiveNothing(m) == m

\* sem_post increments the value.
SemGive(m) == m + 1

\* Using a semaphore that is not initialised (or already destroyed) is
\* undefined: the call may return whatever the stored value is.
SemWaitReturns == SemWaitCanPass(mutex) \/ semState # "init"

SemAfterWait == IF SemWaitCanPass(mutex) THEN SemTake(mutex) ELSE mutex

\* ------------------------------------------------------------------ ring
\* Faulty variant: the cursor skips a slot.
NextCursorSkips(c) == (c + 2) % N

\* Faulty variant: the cursor steps backwards.
NextCursorBackwards(c) == (c + N - 1) % N

\* Faulty variant: the cursor wraps one slot early.
NextCursorWrapsEarly(c) == (c + 1) % (N - 1)

NextCursor(c) == (c + 1) % N

\* Faulty variant: the walk does not wrap around but stays on the last slot.
WalkIndexClamped(c, i) == Min(c + i, N - 1)

WalkIndex(c, i) == (c + i) % N

\* Faulty variant: the channels are swapped.
StorePointSwapped(v, s) ==
    IF v = "main"
    THEN << s[2], s[1] >>
    ELSE << WINDOW_SIZE \div 2 + (WINDOW_SIZE \div 2) * s[2],
            WINDOW_SIZE \div 2 + (WINDOW_SIZE \div 2) * s[1] >>

\* The point callback stores for the frame (left, right) = s.
StorePoint(v, s) ==
    IF v = "main"
    THEN s
    ELSE << WINDOW_SIZE \div 2 + (WINDOW_SIZE \div 2) * s[1],
            WINDOW_SIZE \div 2 + (WINDOW_SIZE \div 2) * s[2] >>

\* Faulty variant: the offset is added before the scaling.
TransformOffsetFirst(v, p, scale, offset) ==
    IF v = "main" THEN Vector2Scale(Vector2Add(p, offset), scale) ELSE p

\* The vertex DrawVertexBuffer emits for the stored point p.
Transform(v, p, scale, offset) ==
    IF v = "main" THEN Vector2Add(Vector2Scale(p, scale), offset) ELSE p

\* ----------------------------------------------------------- audio thread
\* miniaudio's device thread calls the attached processor for a stream that
\* is loaded and playing, with the audio system's lock held.
CallbackMayStart ==
    /\ apc = "idle"
    /\ mpc \notin { "exited", "crashed" }
    /\ audioDeviceOpen /\ streamLoaded /\ attached /\ playing

CallbackEnter ==
    /\ CallbackMayStart
    /\ \E f \in 0..Min(MaxFrames, MaxAppended - Len(hist)) : frames' = f
    /\ apc' = "sem_wait"
    /\ ci' = 0
    /\ UNCHANGED << mpc, procVars, libVars, winVars, semVars, ringVars, drawVars,
                    batch, cbCursor, cbBuf >>

CallbackSemWait ==
    /\ apc = "sem_wait"
    /\ SemWaitReturns
    /\ mutex' = SemAfterWait
    /\ waitRet' = [ waitRet EXCEPT !.audio = 0 ]
    /\ cbCursor' = cursor
    /\ cbBuf' = vertexBuffer
    /\ apc' = "loop"
    /\ UNCHANGED << mpc, procVars, libVars, winVars, semState, nfail, ringVars,
                    frames, ci, batch, drawVars >>

\* The loop test and, inside the loop, the store into slot cursor, or the
\* loop's exit.  frameptr[i] is read here, so the frame's value is chosen here.
CallbackLoop ==
    /\ apc = "loop"
    /\ IF ci < frames
       THEN \E s \in Samples :
              /\ vertexBuffer' = [ vertexBuffer EXCEPT ![cursor] = StorePoint(variant, s) ]
              /\ batch' = Append(batch, s)
              /\ apc' = "advance"
       ELSE /\ apc' = "sem_post"
            /\ UNCHANGED << vertexBuffer, batch >>
    /\ UNCHANGED << mpc, procVars, libVars, winVars, semVars, cursor, hist,
                    frames, ci, cbCursor, cbBuf, drawVars >>

\* Faulty variant: the lock is held around one append at a time; the
\* callback gives it back after each point and takes it again for the next.
CallbackAdvancePerPoint ==
    /\ apc = "advance"
    /\ hist' = Append(hist, vertexBuffer[cursor])
    /\ cursor' = NextCursor(cursor)
    /\ ci' = ci + 1
    /\ mutex' = SemGive(mutex)
    /\ apc' = IF ci + 1 < frames THEN "sem_wait" ELSE "idle"
    /\ frames' = IF ci + 1 < frames THEN frames ELSE 0
    /\ UNCHANGED << mpc, procVars, libVars, winVars, semState, waitRet, nfail,
                    vertexBuffer, batch, cbCursor, cbBuf, drawVars >>

\* cursor = (cursor + 1) % VERTEX_BUFFER_SIZE and i++: the append is complete.
CallbackAdvance ==
    /\ apc = "advance"
    /\ hist' = Append(hist, vertexBuffer[cursor])
    /\ cursor' = NextCursor(cursor)
    /\ ci' = ci + 1
    /\ apc' = "loop"
    /\ UNCHANGED << mpc, procVars, libVars, winVars, semVars, vertexBuffer,
                    frames, batch, cbCursor, cbBuf, drawVars >>

\* sem_post, and the return: frames and i cease to exist.
CallbackSemPost ==
    /\ apc = "sem_post"
    /\ mutex' = SemGive(mutex)
    /\ apc' = "idle"
    /\ frames' = 0
    /\ ci' = 0
    /\ batch' = << >>
    /\ cbCursor' = 0
    /\ cbBuf' = [ s \in 0..(N - 1) |-> Zero ]
    /\ UNCHANGED << mpc, procVars, libVars, winVars, semState, waitRet, nfail,
                    ringVars, drawVars >>

\* --------------------------------------------------------- display thread
DrawSemWait ==
    /\ mpc = "DrawVertexBuffer"
    /\ SemWaitReturns
    /\ mutex' = SemAfterWait
    /\ waitRet' = [ waitRet EXCEPT !.display = 0 ]
    /\ snapLen' = Len(hist)
    /\ snapCursor' = cursor
    /\ snapBuf' = vertexBuffer
    /\ mpc' = "draw_begin"
    /\ UNCHANGED << procVars, libVars, winVars, semState, nfail, ringVars, cbVars,
                    begin, di, segs, drawOffset, drawScale >>

\* Faulty variant: the walk consumes the slot it starts from.
DrawBeginConsumes ==
    /\ mpc = "draw_begin"
    /\ begin' = Transform(variant, vertexBuffer[cursor], drawScale, drawOffset)
    /\ cursor' = NextCursor(cursor)
    /\ di' = 1
    /\ mpc' = "draw_loop"
    /\ UNCHANGED << procVars, libVars, winVars, semVars, vertexBuffer, hist, cbVars,
                    segs, drawOffset, drawScale, snapLen, snapCursor, snapBuf >>

DrawBegin ==
    /\ mpc = "draw_begin"
    /\ begin' = Transform(variant, vertexBuffer[cursor], drawScale, drawOffset)
    /\ di' = 1
    /\ mpc' = "draw_loop"
    /\ UNCHANGED << procVars, libVars, winVars, semVars, ringVars, cbVars,
                    segs, drawOffset, drawScale, snapLen, snapCursor, snapBuf >>

\* Faulty variant: the loop stops one slot short.
DrawLoopBoundShort == N - 1

DrawLoopBound == N

DrawLoop ==
    /\ mpc = "draw_loop"
    /\ IF di < DrawLoopBound
       THEN LET end == Transform(variant, vertexBuffer[WalkIndex(cursor, di)],
                                 drawScale, drawOffset)
            IN /\ segs' = Append(segs, << begin, end >>)
               /\ begin' = end
               /\ di' = di + 1
               /\ mpc' = mpc
       ELSE /\ mpc' = "draw_post"
            /\ UNCHANGED << begin, di, segs >>
    /\ UNCHANGED << procVars, libVars, winVars, semVars, ringVars, cbVars,
                    drawOffset, drawScale, snapLen, snapCursor, snapBuf >>

\* rlEnd, sem_post, and the return: begin and i cease to exist.
DrawSemPost ==
    /\ mpc = "draw_post"
    /\ mutex' = SemGive(mutex)
    /\ begin' = Zero
    /\ di' = 0
    /\ mpc' = "EndDrawing"
    /\ UNCHANGED << procVars, libVars, winVars, semState, waitRet, nfail, ringVars,
                    cbVars, segs, drawOffset, drawScale, snapLen, snapCursor,
                    snapBuf >>

\* ------------------------------------------------------------------- main
\* The statement that follows statement x of the startup or teardown path.
AfterStartup(x) == After(StartupOrder(variant), x)

AfterTeardown(x) == After(TeardownOrder(variant), x)

\* Faulty variant: the argument count is not tested.
ArgCheckMissing ==
    /\ mpc = "argcheck"
    /\ mpc' = AfterStartup("argcheck")
    /\ UNCHANGED << seek, variant, argc, exitStatus, shouldClose, loadResult, libVars,
                    winVars, semVars, ringVars, cbVars, drawVars >>

\* if (argc < 2) return 0;
ArgCheck ==
    /\ mpc = "argcheck"
    /\ IF argc < 2
       THEN mpc' = "exited" /\ exitStatus' = 0
       ELSE mpc' = AfterStartup("argcheck") /\ UNCHANGED exitStatus
    /\ UNCHANGED << seek, variant, argc, shouldClose, loadResult, libVars, winVars, semVars,
                    ringVars, cbVars, drawVars >>

InitAudioDevice ==
    /\ mpc = "InitAudioDevice"
    /\ audioDeviceOpen' = TRUE
    /\ mpc' = AfterStartup("InitAudioDevice")
    /\ UNCHANGED << procVars, streamLoaded, attached, playing, winVars, semVars,
                    ringVars, cbVars, drawVars >>

\* LoadMusicStream and, in main.c, the test of music.stream.buffer that
\* follows it; music.looping = false has no effect on this state.
LoadMusicStream ==
    /\ mpc = "LoadMusicStream"
    /\ \E ok \in BOOLEAN :
         /\ streamLoaded' = ok
         /\ loadResult' = IF ok THEN "ok" ELSE "failed"
         /\ IF variant = "main" /\ ~ok
            THEN /\ audioDeviceOpen' = FALSE
                 /\ exitStatus' = 0
                 /\ mpc' = "exited"
            ELSE /\ mpc' = AfterStartup("LoadMusicStream")
                 /\ UNCHANGED << audioDeviceOpen, exitStatus >>
    /\ UNCHANGED << seek, variant, argc, shouldClose, attached, playing, winVars,
                    semVars, ringVars, cbVars, drawVars >>

\* AttachAudioStreamProcessor links the callback into stream.buffer; with a
\* NULL buffer (part_000 after a failed load) that is a NULL dereference:
\* the process crashes or carries on with nothing attached.
AttachAudioStreamProcessor ==
    /\ mpc = "AttachAudioStreamProcessor"
    /\ IF streamLoaded
       THEN attached' = TRUE /\ mpc' = AfterStartup("AttachAudioStreamProcessor")
       ELSE /\ UNCHANGED attached
            /\ mpc' \in { "crashed", AfterStartup("AttachAudioStreamProcessor") }
    /\ UNCHANGED << procVars, audioDeviceOpen, streamLoaded, playing, winVars,
                    semVars, ringVars, cbVars, drawVars >>

SemInit ==
    /\ mpc = "sem_init"
    /\ semState' = "init"
    /\ mutex' = SemInitValue
    /\ mpc' = AfterStartup("sem_init")
    /\ UNCHANGED << procVars, libVars, winVars, waitRet, nfail, ringVars, cbVars,
                    drawVars >>

\* InitWindow, SetTargetFPS and, in main.c, the monitor size query.
InitWindow ==
    /\ mpc = "InitWindow"
    /\ windowOpen' = TRUE
    /\ IF variant = "main"
       THEN /\ windowWidth' = WINDOW_WIDTH
            /\ windowHeight' = WINDOW_HEIGHT
            /\ monitorSize' \in MonitorSizes
       ELSE /\ windowWidth' = WINDOW_SIZE
            /\ windowHeight' = WINDOW_SIZE
            /\ UNCHANGED monitorSize
    /\ mpc' = AfterStartup("InitWindow")
    /\ UNCHANGED << procVars, libVars, fullscreen, semVars, ringVars, cbVars,
                    drawVars >>

\* PlayMusicStream does nothing for a stream without a buffer.
PlayMusicStream ==
    /\ mpc = "PlayMusicStream"
    /\ playing' = streamLoaded
    /\ mpc' = AfterStartup("PlayMusicStream")
    /\ UNCHANGED << procVars, audioDeviceOpen, streamLoaded, attached, winVars,
                    semVars, ringVars, cbVars, drawVars >>

\* Faulty variant: the loop goes on while either condition holds.
LoopCondEither(close, play) == ~close \/ play

\* while (!WindowShouldClose() && IsMusicStreamPlaying(music))
LoopCond(close, play) == ~close /\ play

LoopTest ==
    /\ mpc = "looptest"
    /\ \E close \in BOOLEAN :
         /\ shouldClose' = close
         /\ mpc' = IF LoopCond(close, playing)
                   THEN "tick"
                   ELSE TeardownOrder(variant)[1]
    /\ UNCHANGED << seek, variant, argc, exitStatus, loadResult, libVars, winVars,
                    semVars, ringVars, cbVars, drawVars >>

\* The body of the loop up to UpdateMusicStream: the fullscreen toggle
\* (main.c only), the seek keys (which move only the stream's position) and
\* UpdateMusicStream, which stops a stream that has reached its end.
TickInput ==
    /\ mpc = "tick"
    /\ \E keyF \in BOOLEAN :
         IF variant = "main" /\ keyF
         THEN IF fullscreen
              THEN /\ windowWidth' = WINDOW_WIDTH
                   /\ windowHeight' = WINDOW_HEIGHT
                   /\ fullscreen' = FALSE
              ELSE /\ windowWidth' = monitorSize[1]
                   /\ windowHeight' = monitorSize[2]
                   /\ fullscreen' = TRUE
         ELSE UNCHANGED << windowWidth, windowHeight, fullscreen >>
    /\ \E ended \in BOOLEAN : playing' = (playing /\ ~ended)
    /\ mpc' = "BeginDrawing"
    /\ UNCHANGED << procVars, audioDeviceOpen, streamLoaded, attached, windowOpen,
                    monitorSize, semVars, ringVars, cbVars, drawVars >>

\* drawOffset and drawScale (main.c), BeginDrawing, ClearBackground.
BeginDrawing ==
    /\ mpc = "BeginDrawing"
    /\ IF variant = "main"
       THEN /\ drawOffset' = << windowWidth \div 2, windowHeight \div 2 >>
            /\ drawScale' = windowHeight \div 2
       ELSE UNCHANGED << drawOffset, drawScale >>
    /\ mpc' = "DrawVertexBuffer"
    /\ UNCHANGED << procVars, libVars, winVars, semVars, ringVars, cbVars,
                    begin, di, segs, snapLen, snapCursor, snapBuf >>

\* EndDrawing flushes the vertices of the frame to the screen.
EndDrawing ==
    /\ mpc = "EndDrawing"
    /\ segs' = << >>
    /\ snapLen' = 0
    /\ snapCursor' = 0
    /\ snapBuf' = [ s \in 0..(N - 1) |-> Zero ]
    /\ mpc' = "looptest"
    /\ UNCHANGED << procVars, libVars, winVars, semVars, ringVars, cbVars,
                    begin, di, drawOffset, drawScale >>

\* UnloadMusicStream untracks the stream's buffer under the audio system's
\* lock, which the device thread holds while it runs the callback: it returns
\* only when no callback is in progress, and none starts afterwards.
UnloadMusicStream ==
    /\ mpc = "UnloadMusicStream"
    /\ apc = "idle"
    /\ streamLoaded' = FALSE
    /\ attached' = FALSE
    /\ playing' = FALSE
    /\ mpc' = AfterTeardown("UnloadMusicStream")
    /\ UNCHANGED << procVars, audioDeviceOpen, winVars, semVars, ringVars, cbVars,
                    drawVars >>

CloseAudioDevice ==
    /\ mpc = "CloseAudioDevice"
    /\ audioDeviceOpen' = FALSE
    /\ mpc' = AfterTeardown("CloseAudioDevice")
    /\ UNCHANGED << procVars, streamLoaded, attached, playing, winVars, semVars,
                    ringVars, cbVars, drawVars >>

CloseWindow ==
    /\ mpc = "CloseWindow"
    /\ windowOpen' = FALSE
    /\ mpc' = AfterTeardown("CloseWindow")
    /\ UNCHANGED << procVars, libVars, windowWidth, windowHeight, fullscreen,
                    monitorSize, semVars, ringVars, cbVars, drawVars >>

SemDestroy ==
    /\ mpc = "sem_destroy"
    /\ semState' = "destroyed"
    /\ mpc' = AfterTeardown("sem_destroy")
    /\ UNCHANGED << procVars, libVars, winVars, mutex, waitRet, nfail, ringVars,
                    cbVars, drawVars >>

Return ==
    /\ mpc = "return"
    /\ exitStatus' = 0
    /\ mpc' = "exited"
    /\ UNCHANGED << seek, variant, argc, shouldClose, loadResult, libVars, winVars, semVars,
                    ringVars, cbVars, drawVars >>

\* ------------------------------------------------------------------ Next
Next ==
    \/ ArgCheck
    \/ InitAudioDevice
    \/ LoadMusicStream
    \/ AttachAudioStreamProcessor
    \/ SemInit
    \/ InitWindow
    \/ PlayMusicStream
    \/ LoopTest
    \/ TickInput
    \/ BeginDrawing
    \/ DrawSemWait
    \/ DrawBegin
    \/ DrawLoop
    \/ DrawSemPost
    \/ EndDrawing
    \/ UnloadMusicStream
    \/ CloseAudioDevice
    \/ CloseWindow
    \/ SemDestroy
    \/ Return
    \/ CallbackEnter
    \/ CallbackSemWait
    \/ CallbackLoop
    \/ CallbackAdvance
    \/ CallbackSemPost

Spec == Init /\ [][Next]_vars

\* Fairness: both threads keep running, and a thread that waits for a lock
\* (the semaphore, or the audio system's lock in UnloadMusicStream) gets it
\* if it is free again and again.
AudioStep == CallbackLoop \/ CallbackAdvance \/ CallbackSemPost

MainStep ==
    \/ ArgCheck \/ InitAudioDevice \/ LoadMusicStream
    \/ AttachAudioStreamProcessor \/ SemInit \/ InitWindow \/ PlayMusicStream
    \/ LoopTest \/ TickInput \/ BeginDrawing \/ DrawBegin \/ DrawLoop
    \/ DrawSemPost \/ EndDrawing \/ CloseAudioDevice \/ CloseWindow
    \/ SemDestroy \/ Return

FairSpec ==
    /\ Init /\ [][Next]_vars
    /\ WF_vars(AudioStep)
    /\ WF_vars(MainStep)
    /\ SF_vars(CallbackSemWait)
    /\ SF_vars(DrawSemWait)
    /\ SF_vars(UnloadMusicStream)

\* ------------------------------------------------- failing sem_wait
\* sem_wait can return -1 without taking the semaphore (EINTR, EINVAL, or a
\* platform without unnamed semaphores).  Neither caller tests the return
\* value, so each goes on into its loop.
CallbackSemWaitFails ==
    /\ apc = "sem_wait"
    /\ nfail < MaxFail
    /\ nfail' = nfail + 1
    /\ waitRet' = [ waitRet EXCEPT !.audio = -1 ]
    /\ cbCursor' = cursor
    /\ cbBuf' = vertexBuffer
    /\ apc' = "loop"
    /\ UNCHANGED << mpc, procVars, libVars, winVars, semState, mutex, ringVars,
                    frames, ci, batch, drawVars >>

DrawSemWaitFails ==
    /\ mpc = "DrawVertexBuffer"
    /\ nfail < MaxFail
    /\ nfail' = nfail + 1
    /\ waitRet' = [ waitRet EXCEPT !.display = -1 ]
    /\ snapLen' = Len(hist)
    /\ snapCursor' = cursor
    /\ snapBuf' = vertexBuffer
    /\ mpc' = "draw_begin"
    /\ UNCHANGED << procVars, libVars, winVars, semState, mutex, ringVars, cbVars,
                    begin, di, segs, drawOffset, drawScale >>

NextFail == Next \/ CallbackSemWaitFails \/ DrawSemWaitFails

SpecFail == Init /\ [][NextFail]_vars

\* ---------------------------------------------------------------- seeking
\* The seek keys of main.c, in whole seconds.
skipSize == 5

\* Faulty variant: the forward seek is not held at the end of the stream.
SeekForwardUnclamped(elapsed, duration) == elapsed + skipSize

\* fmin(elapsed + skipSize, duration)
SeekForward(elapsed, duration) == Min(elapsed + skipSize, duration)

\* fmax(elapsed - skipSize, 0.f)
SeekBackward(elapsed) == Max(elapsed - skipSize, 0)

\* The calls of SeekMusicStream one tick makes, in order: KEY_RIGHT is
\* tested first, then KEY_LEFT, both against the same elapsed.
SeekTargets(elapsed, duration, right, left) ==
    (IF right THEN << SeekForward(elapsed, duration) >> ELSE << >>)
       \o (IF left THEN << SeekBackward(elapsed) >> ELSE << >>)

\* What the seek step can read: the stream's length, a played time within
\* it, and the two keys.
SeekInputs ==
    { [ duration |-> d, elapsed |-> e, right |-> r, left |-> l,
        done |-> FALSE, targets |-> << >> ] :
          d \in 0..MaxDuration, e \in 0..MaxDuration, r \in BOOLEAN, l \in BOOLEAN }

SeekInit ==
    /\ ProgramInit
    /\ variant = "main"
    /\ argc = 2
    /\ seek \in { in \in SeekInputs : in.elapsed <= in.duration }

\* Lines 116-127 of one tick.
SeekKeys ==
    /\ ~seek.done
    /\ seek' = [ seek EXCEPT
                   !.done = TRUE,
                   !.targets = SeekTargets(seek.elapsed, seek.duration,
                                           seek.right, seek.left) ]
    /\ UNCHANGED << mpc, variant, argc, exitStatus, shouldClose, loadResult,
                    libVars, winVars, semVars, ringVars, cbVars, drawVars >>

SeekNext == SeekKeys

SeekSpec == SeekInit /\ [][SeekNext]_vars

\* ------------------------------------------------------- the tick of main.c
\* main.c at its first loop test, the file loaded, on any monitor.
TickInit ==
    /\ variant = "main"
    /\ argc = 2
    /\ mpc = "looptest"
    /\ exitStatus = -1
    /\ audioDeviceOpen = TRUE
    /\ streamLoaded = TRUE
    /\ attached = TRUE
    /\ playing = TRUE
    /\ windowOpen = TRUE
    /\ windowWidth = WINDOW_WIDTH
    /\ windowHeight = WINDOW_HEIGHT
    /\ fullscreen = FALSE
    /\ monitorSize \in MonitorSizes \cup UprightMonitorSizes
    /\ semState = "init"
    /\ mutex = SemInitValue
    /\ waitRet = [ audio |-> 0, display |-> 0 ]
    /\ vertexBuffer = [ s \in 0..(N - 1) |-> Zero ]
    /\ cursor = 0
    /\ apc = "idle"
    /\ frames = 0
    /\ ci = 0
    /\ begin = Zero
    /\ di = 0
    /\ segs = << >>
    /\ drawOffset = Zero
    /\ drawScale = 0
    /\ hist = << >>
    /\ snapLen = 0
    /\ snapCursor = 0
    /\ nfail = 0
    /\ shouldClose = FALSE
    /\ loadResult = "ok"
    /\ snapBuf = [ s \in 0..(N - 1) |-> Zero ]
    /\ batch = << >>
    /\ cbCursor = 0
    /\ cbBuf = [ s \in 0..(N - 1) |-> Zero ]
    /\ seek = NoSeek

\* The display thread's loop by itself.
TickNext ==
    \/ LoopTest
    \/ TickInput
    \/ BeginDrawing
    \/ DrawSemWait
    \/ DrawBegin
    \/ DrawLoop
    \/ DrawSemPost
    \/ EndDrawing

TickSpec == TickInit /\ [][TickNext]_vars

\* ------------------------------------------- DrawVertexBuffer as a function
\* Scales and offsets DrawVertexBuffer can be called with.
DrawScales == { 1, 2, WINDOW_HEIGHT \div 2 }

DrawOffsets == { Zero, << 3, -4 >>, << WINDOW_WIDTH \div 2, WINDOW_HEIGHT \div 2 >> }

\* Either program about to call DrawVertexBuffer while the stream plays, the
\* ring still empty; in main.c the call's drawOffset and drawScale are any of
\* the above.
DrawInit ==
    /\ variant \in Variants
    /\ argc = 2
    /\ mpc = "DrawVertexBuffer"
    /\ exitStatus = -1
    /\ audioDeviceOpen = TRUE
    /\ streamLoaded = TRUE
    /\ attached = TRUE
    /\ playing = TRUE
    /\ windowOpen = TRUE
    /\ windowWidth = (IF variant = "main" THEN WINDOW_WIDTH ELSE WINDOW_SIZE)
    /\ windowHeight = (IF variant = "main" THEN WINDOW_HEIGHT ELSE WINDOW_SIZE)
    /\ fullscreen = FALSE
    /\ monitorSize \in (IF variant = "main" THEN MonitorSizes ELSE { << 0, 0 >> })
    /\ semState = "init"
    /\ mutex = SemInitValue
    /\ waitRet = [ audio |-> 0, display |-> 0 ]
    /\ vertexBuffer = [ s \in 0..(N - 1) |-> Zero ]
    /\ cursor = 0
    /\ apc = "idle"
    /\ frames = 0
    /\ ci = 0
    /\ begin = Zero
    /\ di = 0
    /\ segs = << >>
    /\ drawOffset \in (IF variant = "main" THEN DrawOffsets ELSE { Zero })
    /\ drawScale \in (IF variant = "main" THEN DrawScales ELSE { 0 })
    /\ hist = << >>
    /\ snapLen = 0
    /\ snapCursor = 0
    /\ nfail = 0
    /\ shouldClose = FALSE
    /\ loadResult = "ok"
    /\ snapBuf = [ s \in 0..(N - 1) |-> Zero ]
    /\ batch = << >>
    /\ cbCursor = 0
    /\ cbBuf = [ s \in 0..(N - 1) |-> Zero ]
    /\ seek = NoSeek

\* One call of DrawVertexBuffer, and the callbacks that run before and
\* after it.
DrawNext ==
    \/ DrawSemWait
    \/ DrawBegin
    \/ DrawLoop
    \/ DrawSemPost
    \/ CallbackEnter
    \/ CallbackSemWait
    \/ CallbackLoop
    \/ CallbackAdvance
    \/ CallbackSemPost

DrawSpec == DrawInit /\ [][DrawNext]_vars

\* ================================================================ claims
AudioInside == apc \in { "loop", "advance", "sem_post" }

DisplayInside == mpc \in { "draw_begin", "draw_loop", "draw_post" }

\* The N slots read from the cursor forward with wraparound.
RingWalk(buf, c) == [ i \in 1..N |-> buf[(c + i - 1) % N] ]

\* What the ring must show after the points of h were appended to a zeroed
\* ring: zero points while fewer than N arrived, then the last N, oldest first.
Expected(h) ==
    LET k == Len(h)
    IN IF k >= N
       THEN SubSeq(h, k - N + 1, k)
       ELSE [ i \in 1..N |-> IF i <= N - k THEN Zero ELSE h[i - (N - k)] ]

\* The points one pass has read so far, in the order read (as emitted).
PassPts ==
    IF Len(segs) = 0
    THEN << begin >>
    ELSE << segs[1][1] >> \o [ i \in 1..Len(segs) |-> segs[i][2] ]

\* The vertex emitted for stored point p in the current pass.
Emitted(p) == Transform(variant, p, drawScale, drawOffset)

\* States in which PassPts belongs to the pass that took its snapshot.
PassReading == mpc \in { "draw_loop", "draw_post" }

\* C1: the audio thread and the display thread are never both inside their
\* critical sections; the initialised semaphore's value is 0 or 1, and it is
\* 0 exactly when one of the two threads is inside.
C1_MutualExclusion ==
    /\ ~(AudioInside /\ DisplayInside)
    /\ semState = "init" =>
         /\ mutex \in { 0, 1 }
         /\ (mutex = 0) <=> (AudioInside \/ DisplayInside)

\* The display thread waits at its sem_wait while the callback is inside.
C1_Witness ==
    /\ AudioInside /\ ci > 0
    /\ mpc = "DrawVertexBuffer"
    /\ mutex = 0

\* C2: during a pass the cursor and the slots are those of the instant the
\* lock was acquired: the cursor does not move, nothing is appended, every
\* point read is the snapshot's slot in walk order, and the snapshot shows
\* exactly the appends completed before the acquisition.
C2_NoTearing ==
    /\ DisplayInside =>
         /\ cursor = snapCursor
         /\ vertexBuffer = snapBuf
         /\ Len(hist) = snapLen
    /\ PassReading =>
         /\ Len(PassPts) = di
         /\ \A j \in 1..Len(PassPts) :
              PassPts[j] = Emitted(RingWalk(snapBuf, snapCursor)[j])
         /\ RingWalk(snapBuf, snapCursor) = Expected(SubSeq(hist, 1, snapLen))

\* A pass is at its last slot while a callback with a non-empty batch waits
\* for the lock and earlier batches are already in the snapshot.
C2_Witness ==
    /\ mpc = "draw_loop" /\ di = N
    /\ apc = "sem_wait" /\ frames > 0
    /\ snapLen > 0

\* C3: whenever the lock is free, the N slots read from the cursor forward
\* are max(0, N - k) zero points followed by the last min(k, N) of the k
\* appended points in append order.
C3_RingOrdering ==
    (~AudioInside /\ ~DisplayInside) =>
        RingWalk(vertexBuffer, cursor) = Expected(hist)

\* Fewer points than slots have arrived, in more than one batch.
C3_Witness ==
    /\ ~AudioInside /\ ~DisplayInside
    /\ Len(hist) = N - 1
    /\ cursor = N - 1
    /\ hist[1] # hist[N - 1]
    /\ apc = "sem_wait" /\ frames > 0

\* C4: once N + m points (0 < m < N) were appended, a finished walk has
\* visited exactly the last N of them, oldest first, each once; the first m
\* are gone from the ring; and the producer waits for nothing but the lock.
C4_Wraparound ==
    /\ (mpc = "draw_post" /\ snapLen > N /\ snapLen < 2 * N) =>
         /\ Len(PassPts) = N
         /\ \A j \in 1..N : PassPts[j] = Emitted(hist[snapLen - N + j])
    /\ (~AudioInside /\ ~DisplayInside /\ Len(hist) > N) =>
         \A s \in 0..(N - 1) :
            \E j \in (Len(hist) - N + 1)..Len(hist) :
               /\ vertexBuffer[s] = hist[j]
               /\ s = (j - 1) % N
    /\ (apc = "sem_wait" /\ ~DisplayInside /\ semState = "init") =>
         ENABLED CallbackSemWait
    /\ apc = "loop" => ENABLED CallbackLoop
    /\ apc = "advance" => ENABLED CallbackAdvance

\* A walk has finished over a ring that wrapped around by one point.
C4_Witness ==
    /\ mpc = "draw_post"
    /\ snapLen = N + 1
    /\ hist[1] # hist[N + 1]

\* C5: a pass emits N - 1 segments; the first begins at the cursor's slot,
\* segment i ends at slot (cursor + i) mod N, each segment begins where the
\* previous one ended; on a ring nothing was appended to, every segment
\* joins the zero point to the zero point.
C5_WalkShape ==
    /\ PassReading =>
         /\ Len(segs) = di - 1
         /\ Len(segs) <= N - 1
         /\ \A i \in 1..Len(segs) :
              /\ segs[i][2] = Emitted(vertexBuffer[(cursor + i) % N])
              /\ segs[i][1] = IF i = 1 THEN Emitted(vertexBuffer[cursor])
                                       ELSE segs[i - 1][2]
    /\ mpc \in { "draw_post", "EndDrawing" } => Len(segs) = N - 1
    /\ (mpc = "draw_post" /\ snapLen = 0) =>
         \A i \in 1..Len(segs) : segs[i] = << Emitted(Zero), Emitted(Zero) >>

\* A finished pass over a ring that holds points and whose cursor is not 0.
C5_Witness ==
    /\ mpc = "draw_post"
    /\ cursor # 0
    /\ Len(segs) = N - 1
    /\ segs[N - 1][1] # segs[N - 1][2]

\* C6: a callback or a DrawVertexBuffer call that has the lock finishes and
\* releases it, the semaphore is never left at 0 with nobody inside, and
\* under fair scheduling every started callback returns and every started
\* DrawVertexBuffer call returns.
C6_Progress ==
    /\ [](semState = "init" /\ mutex = 0 => AudioInside \/ DisplayInside)
    /\ (apc # "idle") ~> (apc = "idle")
    /\ (mpc = "DrawVertexBuffer" \/ DisplayInside) ~> (mpc = "EndDrawing")

\* A callback with a batch waits for the lock the display thread holds.
C6_Witness ==
    /\ apc = "sem_wait" /\ frames > 0
    /\ mpc = "draw_begin"

\* C7: on the normal exit path the stream (and its processor) is gone before
\* the window is closed, the window is closed before the semaphore is
\* destroyed, the semaphore is free when it is destroyed, and from then on
\* no callback is running or can start.
C7_ShutdownOrder ==
    /\ mpc = "CloseWindow" => ~streamLoaded /\ ~attached
    /\ mpc = "sem_destroy" =>
         /\ ~streamLoaded /\ ~attached /\ ~windowOpen
         /\ apc = "idle"
         /\ mutex = SemInitValue
    /\ semState = "destroyed" =>
         /\ ~streamLoaded /\ ~windowOpen
         /\ apc = "idle"
         /\ ~ENABLED CallbackEnter

\* The program has exited through teardown after callbacks and walks ran.
C7_Witness ==
    /\ mpc = "exited"
    /\ semState = "destroyed"
    /\ loadResult = "ok"
    /\ Len(hist) > N

\* C8 (the claim as stated): a thread whose sem_wait failed is never inside
\* the section that reads or writes vertexBuffer and cursor.
C8_FailureIsFatal ==
    /\ waitRet.audio = -1 => ~AudioInside
    /\ waitRet.display = -1 => ~DisplayInside

\* C9 (the claim as stated): once the audio source failed to open the path
\* the process has exited with status 0, the audio device is closed, and no
\* window is open, no processor attached, nothing playing.
C9_StartupFailure ==
    loadResult = "failed" =>
        /\ mpc = "exited"
        /\ exitStatus = 0
        /\ ~audioDeviceOpen
        /\ ~windowOpen
        /\ ~attached
        /\ ~playing

\* The lifecycle states of the main loop.
TeardownSteps == { TeardownOrder(variant)[i] : i \in 1..Len(TeardownOrder(variant)) }

Stopped == mpc \in TeardownSteps \/ (mpc = "exited" /\ semState = "destroyed")

Phase ==
    IF Stopped THEN "Stopped"
    ELSE IF streamLoaded /\ attached /\ windowOpen THEN "Playing"
    ELSE IF streamLoaded THEN "Loaded"
    ELSE "Idle"

Rank(p) == CASE p = "Idle" -> 0 [] p = "Loaded" -> 1 [] p = "Playing" -> 2
             [] p = "Stopped" -> 3

InTick == mpc \in { "tick", "BeginDrawing", "DrawVertexBuffer", "draw_begin",
                    "draw_loop", "draw_post", "EndDrawing" }

\* C10: the lifecycle only moves forward; the loop test starts a tick exactly
\* when the window is not to close and the stream is playing, and otherwise
\* starts teardown; a tick is input and stream advance, then one
\* DrawVertexBuffer call, then the loop test again; once teardown has begun
\* no tick step happens, its steps run in order, each once, to the exit.
C10_Lifecycle ==
    /\ [][Rank(Phase') >= Rank(Phase)]_vars
    /\ [][(mpc = "looptest" /\ mpc' # mpc) =>
            /\ (mpc' = "tick") <=> (~shouldClose' /\ playing)
            /\ mpc' # "tick" => mpc' = TeardownOrder(variant)[1]]_vars
    /\ [][(mpc' = "tick" /\ mpc' # mpc) => mpc = "looptest"]_vars
    /\ [][(mpc' = "DrawVertexBuffer" /\ mpc' # mpc) => mpc = "BeginDrawing"]_vars
    /\ [][(mpc = "tick" /\ mpc' # mpc) => mpc' = "BeginDrawing"]_vars
    /\ [][(mpc = "BeginDrawing" /\ mpc' # mpc) => mpc' = "DrawVertexBuffer"]_vars
    /\ [][(mpc = "draw_post" /\ mpc' # mpc) => mpc' = "EndDrawing"]_vars
    /\ [][(mpc = "EndDrawing" /\ mpc' # mpc) => mpc' = "looptest"]_vars
    /\ [][Stopped => Stopped' /\ ~InTick']_vars
    /\ [][(mpc \in TeardownSteps /\ mpc' # mpc) =>
            mpc' = IF mpc = "return" THEN "exited" ELSE AfterTeardown(mpc)]_vars
    /\ (mpc \in TeardownSteps) ~> (mpc = "exited" /\ semState = "destroyed")

\* Teardown has begun because the stream ended, after at least one full tick.
C10_Witness ==
    /\ mpc = TeardownOrder(variant)[1]
    /\ ~shouldClose /\ ~playing
    /\ loadResult = "ok"
    /\ Len(hist) > 0

\* C11 (the claim as stated): at every loop test the display thread holds
\* the state it held at the first one: nothing but the ring carries over
\* from one tick to the next.
C11_NoStateBetweenTicks ==
    mpc = "looptest" =>
        /\ begin = Zero /\ di = 0 /\ segs = << >>
        /\ ~fullscreen
        /\ windowWidth = (IF variant = "main" THEN WINDOW_WIDTH ELSE WINDOW_SIZE)
        /\ windowHeight = (IF variant = "main" THEN WINDOW_HEIGHT ELSE WINDOW_SIZE)

\* C11 (amended): a slot or the cursor changes only in a step of callback's
\* loop, taken by the audio thread; no step of the display thread changes
\* either; at every loop test DrawVertexBuffer's begin, i and emitted
\* vertices are gone, and part_000's window size is what InitWindow set.
\* What main.c does carry from tick to tick is the window size and mode
\* set by the fullscreen toggle.
C11_SingleWriter ==
    /\ [][(vertexBuffer' # vertexBuffer \/ cursor' # cursor) =>
            /\ apc \in { "loop", "advance" }
            /\ mpc' = mpc]_vars
    /\ [][mpc' # mpc => (vertexBuffer' = vertexBuffer /\ cursor' = cursor)]_vars
    /\ [](mpc = "looptest" => (begin = Zero /\ di = 0 /\ segs = << >>))
    /\ [](mpc = "looptest" /\ variant = "simple" =>
            (~fullscreen /\ windowWidth = WINDOW_SIZE /\ windowHeight = WINDOW_SIZE))

\* A second loop test, in fullscreen, after a walk over a ring holding points.
C11_Witness ==
    /\ mpc = "looptest"
    /\ fullscreen
    /\ Len(hist) > 0

\* C13: started without a file argument the program exits with status 0 at
\* once: the audio device, the window and the semaphore are never
\* initialised, the callback is never attached, nothing else runs.
C13_MissingArgument ==
    argc < 2 =>
        /\ mpc \in { "argcheck", "exited" }
        /\ mpc = "exited" => exitStatus = 0
        /\ mpc = "argcheck" => exitStatus = -1
        /\ ~audioDeviceOpen /\ ~windowOpen /\ ~attached /\ ~streamLoaded
        /\ ~playing
        /\ semState = "uninit"
        /\ loadResult = "none"
        /\ apc = "idle"

\* The program has exited for want of an argument.
C13_Witness ==
    /\ argc < 2
    /\ mpc = "exited"
    /\ exitStatus = 0

\* C14: the cursor is always in 0..N-1; a point is stored only into the slot
\* the cursor names, with the cursor left where it is, and the cursor then
\* moves, by itself, to (cursor + 1) mod N.
C14_CursorInvariant ==
    /\ [](cursor \in 0..(N - 1))
    /\ [][vertexBuffer' # vertexBuffer =>
            /\ apc = "loop" /\ apc' = "advance"
            /\ cursor' = cursor
            /\ \A s \in 0..(N - 1) : s # cursor => vertexBuffer'[s] = vertexBuffer[s]]_vars
    /\ [][cursor' # cursor =>
            /\ apc = "advance"
            /\ cursor' = (cursor + 1) % N
            /\ vertexBuffer' = vertexBuffer]_vars
    /\ [][(apc = "advance" /\ apc' # apc) => cursor' = (cursor + 1) % N]_vars

\* The cursor is about to wrap from the last slot to slot 0.
C14_Witness ==
    /\ apc = "advance"
    /\ cursor = N - 1
    /\ Len(hist) = N - 1

\* C19: a thread at or past a sem_wait, inside, or at its sem_post finds the
\* semaphore initialised; while the callback is attached but the semaphore
\* is not yet initialised no callback can start, and playback is on only
\* after sem_init.
C19_InitBeforeUse ==
    /\ apc # "idle" => semState = "init"
    /\ (mpc = "DrawVertexBuffer" \/ DisplayInside) => semState = "init"
    /\ semState = "uninit" => (~playing /\ ~ENABLED CallbackEnter)

\* main.c: the callback is attached and the semaphore not yet initialised.
C19_Witness ==
    /\ variant = "main"
    /\ attached
    /\ semState = "uninit"
    /\ mpc = "sem_init"

MaxOf(S) == CHOOSE x \in S : \A y \in S : y <= x

\* The frames of the batch (numbered from 0) that went to slot s when the
\* batch started at cursor c.
FramesInto(s, c, f) == { i \in 0..(f - 1) : (c + i) % N = s }

\* The point that stands for the frame (left, right): left is x, right is
\* y; part_000 stores it in window coordinates.
PointOf(frame) ==
    IF variant = "main"
    THEN << frame[1], frame[2] >>
    ELSE << 512 + 512 * frame[1], 512 + 512 * frame[2] >>

\* C15: when callback(buffer, frames) is about to return, having started at
\* cursor c, the cursor is (c + frames) mod N; the min(frames, N) slots from
\* c on hold, each, the last frame of the batch that fell on it, left sample
\* as x and right sample as y; every other slot is as it was; with frames = 0
\* nothing changed, with frames > N the ring is the last N frames.
C15_BatchEffect ==
    apc = "sem_post" =>
        /\ Len(batch) = frames /\ ci = frames
        /\ cursor = (cbCursor + frames) % N
        /\ \A s \in 0..(N - 1) :
             LET into == FramesInto(s, cbCursor, frames)
             IN IF into = { }
                THEN vertexBuffer[s] = cbBuf[s]
                ELSE vertexBuffer[s] = PointOf(batch[MaxOf(into) + 1])
        /\ Cardinality({ s \in 0..(N - 1) : FramesInto(s, cbCursor, frames) # { } })
             = Min(frames, N)
        /\ frames = 0 => (vertexBuffer = cbBuf /\ cursor = cbCursor)
        /\ frames > N =>
             \A j \in 1..N :
                RingWalk(vertexBuffer, cursor)[j] = PointOf(batch[frames - N + j])

\* A batch longer than the ring is complete, begun at a cursor other than 0.
C15_Witness ==
    /\ apc = "sem_post"
    /\ frames > N
    /\ cbCursor # 0
    /\ batch[1] # batch[frames]

\* The number of appends completed when the batch in progress, if any, began.
BatchBoundary == Len(hist) - ci

\* C18: a pass never runs while a batch is part-way: while the display
\* thread walks the ring no callback has read or stored a frame of an
\* unfinished batch, so the snapshot holds all the points of every batch
\* begun and none of a batch that waits; the cursor of the snapshot is the
\* boundary of a batch; and the snapshot is the ring after some prefix of the
\* appends, which is what a lock around each single append would allow.
C18_BatchAtomicity ==
    DisplayInside =>
        /\ apc \in { "idle", "sem_wait" }
        /\ ci = 0 /\ batch = << >>
        /\ snapLen = BatchBoundary
        /\ snapCursor = BatchBoundary % N
        /\ \E k \in 0..Len(hist) :
             /\ snapCursor = k % N
             /\ RingWalk(snapBuf, snapCursor) = Expected(SubSeq(hist, 1, k))

\* A pass has begun on a ring that holds a whole batch of several points
\* while the next batch of several points waits for the lock.
C18_Witness ==
    /\ mpc = "draw_begin"
    /\ apc = "sem_wait" /\ frames >= 2
    /\ snapLen >= 2
    /\ snapBuf[0] # Zero /\ snapBuf[1] # Zero

\* The tick of main.c has computed drawOffset and drawScale for this frame.
ScaleComputed ==
    /\ variant = "main"
    /\ mpc = "DrawVertexBuffer" \/ DisplayInside

\* TickInit is the state main.c is in when PlayMusicStream has returned.
TickInitReached ==
    /\ variant = "main" /\ argc = 2 /\ mpc = "looptest" /\ exitStatus = -1
    /\ audioDeviceOpen /\ streamLoaded /\ attached /\ playing /\ windowOpen
    /\ windowWidth = WINDOW_WIDTH /\ windowHeight = WINDOW_HEIGHT /\ ~fullscreen
    /\ monitorSize \in MonitorSizes
    /\ semState = "init" /\ mutex = SemInitValue
    /\ waitRet = [ audio |-> 0, display |-> 0 ]
    /\ vertexBuffer = [ s \in 0..(N - 1) |-> Zero ] /\ cursor = 0
    /\ apc = "idle" /\ frames = 0 /\ ci = 0
    /\ begin = Zero /\ di = 0 /\ segs = << >>
    /\ drawOffset = Zero /\ drawScale = 0
    /\ hist = << >> /\ snapLen = 0 /\ snapCursor = 0 /\ nfail = 0
    /\ ~shouldClose /\ loadResult = "ok"
    /\ snapBuf = [ s \in 0..(N - 1) |-> Zero ]
    /\ batch = << >> /\ cbCursor = 0 /\ cbBuf = [ s \in 0..(N - 1) |-> Zero ]
    /\ seek = NoSeek

\* C16: on every tick of main.c the scale passed to DrawVertexBuffer is half
\* the smaller of the surface's two dimensions and the offset is the centre
\* of the surface, windowed or fullscreen, whatever the monitor's size.
C16_ScaleAndOffset ==
    ScaleComputed =>
        /\ drawScale = Min(windowWidth, windowHeight) \div 2
        /\ drawOffset = << windowWidth \div 2, windowHeight \div 2 >>

\* C17: with elapsed in [0, duration], the right key seeks to
\* min(elapsed + 5, duration) and the left key to max(elapsed - 5, 0); every
\* target given to SeekMusicStream is in [0, duration], also when both keys
\* are down in the same tick.
C17_SeekClamping ==
    seek.done =>
        LET e == seek.elapsed
            d == seek.duration
            fwd == IF e + 5 <= d THEN e + 5 ELSE d
            bwd == IF e - 5 >= 0 THEN e - 5 ELSE 0
        IN /\ Len(seek.targets) = (IF seek.right THEN 1 ELSE 0)
                                    + (IF seek.left THEN 1 ELSE 0)
           /\ seek.right => seek.targets[1] = fwd
           /\ seek.left => seek.targets[Len(seek.targets)] = bwd
           /\ \A j \in 1..Len(seek.targets) :
                seek.targets[j] >= 0 /\ seek.targets[j] <= d

\* Both keys in one tick on a stream shorter than the skip: both clamps act.
C17_Witness ==
    /\ seek.done
    /\ seek.right /\ seek.left
    /\ seek.duration < skipSize /\ seek.elapsed > 0
    /\ seek.targets = << seek.duration, 0 >>

\* The ring slot the j-th point of the current pass came from.
SlotRead(j) == RingWalk(vertexBuffer, cursor)[j]

\* Frames as the (left, right) pairs they are.
RawPairs == Samples \cup { Zero }

\* Frames as part_000 stores them: in window coordinates.
WindowPairs ==
    { << 512 + 512 * s[1], 512 + 512 * s[2] >> : s \in Samples } \cup { Zero }

====
